---- MODULE Spec2Model ----
(***************************************************************************)
(* A model of the ledger of expense.py: class ExpenseTracker (the list of  *)
(* transactions, the budget limits, the JSON document they are saved to)   *)
(* and the operations the GUI calls on it.                                 *)
(*                                                                         *)
(* Representation.                                                         *)
(*   - A Python str that the code only compares for equality (a category,  *)
(*     a JSON key, an enum value) is a TLA+ string.  A str the code looks  *)
(*     into (description, tag, query, date, month) is a Text: a sequence   *)
(*     of one-character strings.                                           *)
(*   - A Python dict is a sequence of [key, value] entries with distinct   *)
(*     keys, in insertion order (the iteration order of a dict).           *)
(*   - Optional[str] is a sequence of length 0 (None) or 1.                *)
(*   - Amounts and limits are integers.                                    *)
(***************************************************************************)
EXTENDS Integers, Sequences, FiniteSets, TLC

VARIABLES
    data_file,      \* what is stored under self.data_file
    running,        \* TRUE while an ExpenseTracker object exists
    transactions,   \* self.transactions
    budget_limits,  \* self.budget_limits
    call,           \* the last call on the tracker: operation, arguments, error
    ret,            \* what the last call returned
    issued_ids,     \* history: every id add_transaction has returned
    faults          \* history: how many writes of the file have failed

vars == <<data_file, running, transactions, budget_limits, call, ret,
          issued_ids, faults>>

-----------------------------------------------------------------------------
(* Bounds *)

MaxTx == 2

MaxId == MaxTx + 1

MaxFaults == 1

-----------------------------------------------------------------------------
(* Sequences and dicts *)

Range(s) == {s[i] : i \in 1..Len(s)}

SeqsUpTo(S, n) == UNION {[1..k -> S] : k \in 0..n}

MaxOf(S) == CHOOSE x \in S : \A y \in S : y <= x

EmptyDict == <<>>

DictKeys(d) == {d[i].key : i \in 1..Len(d)}

DictHas(d, k) == \E i \in 1..Len(d) : d[i].key = k

DictGet(d, k, default) ==
    IF DictHas(d, k) THEN d[CHOOSE i \in 1..Len(d) : d[i].key = k].value
    ELSE default

\* A dict whose assignment adds an entry even when the key is there
DictSet_append(d, k, v) == Append(d, [key |-> k, value |-> v])

DictSet(d, k, v) ==
    IF DictHas(d, k)
    THEN [i \in 1..Len(d) |-> IF d[i].key = k THEN [key |-> k, value |-> v] ELSE d[i]]
    ELSE Append(d, [key |-> k, value |-> v])

None == <<>>

Some(x) == <<x>>

-----------------------------------------------------------------------------
(* Text: str.lower, the in operator on str, slicing *)

UpperCase == <<"A","B","C","D","E","F","G","H","I","J","K","L","M",
               "N","O","P","Q","R","S","T","U","V","W","X","Y","Z">>

LowerCase == <<"a","b","c","d","e","f","g","h","i","j","k","l","m",
               "n","o","p","q","r","s","t","u","v","w","x","y","z">>

LowerChar(c) ==
    IF \E i \in 1..26 : UpperCase[i] = c
    THEN LowerCase[CHOOSE i \in 1..26 : UpperCase[i] = c]
    ELSE c

lower(t) == [i \in 1..Len(t) |-> LowerChar(t[i])]

\* q in t
Contains(t, q) ==
    \E i \in 0..(Len(t) - Len(q)) : \A j \in 1..Len(q) : t[i + j] = q[j]

\* t[:n]
Prefix(t, n) == SubSeq(t, 1, IF Len(t) < n THEN Len(t) ELSE n)

-----------------------------------------------------------------------------
(* datetime.strptime(date, "%Y-%m-%d") and strftime("%Y-%m") *)

DigitChars == <<"0","1","2","3","4","5","6","7","8","9">>

IsDigit(c) == c \in {"0","1","2","3","4","5","6","7","8","9"}

DigitVal(c) ==
    CASE c = "0" -> 0 [] c = "1" -> 1 [] c = "2" -> 2 [] c = "3" -> 3 [] c = "4" -> 4
      [] c = "5" -> 5 [] c = "6" -> 6 [] c = "7" -> 7 [] c = "8" -> 8 [] c = "9" -> 9

DigitChar(n) == DigitChars[n + 1]

\* int(t) for a string of at most four digits
Number(t) ==
    LET n == Len(t)
    IN  (IF n >= 1 THEN DigitVal(t[n]) ELSE 0)
      + (IF n >= 2 THEN 10 * DigitVal(t[n - 1]) ELSE 0)
      + (IF n >= 3 THEN 100 * DigitVal(t[n - 2]) ELSE 0)
      + (IF n >= 4 THEN 1000 * DigitVal(t[n - 3]) ELSE 0)

AllDigits(t) == \A i \in 1..Len(t) : IsDigit(t[i])

IsLeap(y) == (y % 4 = 0 /\ y % 100 # 0) \/ y % 400 = 0

DaysIn(y, m) ==
    IF m = 2 THEN (IF IsLeap(y) THEN 29 ELSE 28)
    ELSE IF m \in {4, 6, 9, 11} THEN 30 ELSE 31

NoDate == [ok |-> FALSE, year |-> 0, month |-> 0, day |-> 0]

\* datetime(y, m, d): ValueError unless it is a day of the calendar.
datetime(y, m, d) ==
    IF y >= 1 /\ m >= 1 /\ m <= 12 /\ d >= 1 /\ d <= DaysIn(y, m)
    THEN [ok |-> TRUE, year |-> y, month |-> m, day |-> d]
    ELSE NoDate

\* The fields of a date whose dashes are at d1 and d2.
date_fields(date, d1, d2) ==
    IF /\ d1 = 5 /\ AllDigits(SubSeq(date, 1, 4))
       /\ d2 - d1 \in {2, 3} /\ AllDigits(SubSeq(date, d1 + 1, d2 - 1))
       /\ Len(date) - d2 \in {1, 2} /\ AllDigits(SubSeq(date, d2 + 1, Len(date)))
    THEN datetime(Number(SubSeq(date, 1, 4)), Number(SubSeq(date, d1 + 1, d2 - 1)),
                  Number(SubSeq(date, d2 + 1, Len(date))))
    ELSE NoDate

\* %Y is four digits; %m is 1[0-2]|0[1-9]|[1-9]; %d is 3[01]|[12]\d|0[1-9]|[1-9];
\* the whole string must match and name a day of the calendar.
strptime(date) ==
    IF Len(date) = 10 /\ date[5] = "-" /\ date[8] = "-"
    THEN date_fields(date, 5, 8)
    ELSE LET dashes == {i \in 1..Len(date) : date[i] = "-"}
         IN  IF Cardinality(dashes) # 2 THEN NoDate
             ELSE date_fields(date, CHOOSE i \in dashes : \A j \in dashes : i <= j,
                                    CHOOSE i \in dashes : \A j \in dashes : j <= i)

Digits4(n) == <<DigitChar((n \div 1000) % 10), DigitChar((n \div 100) % 10),
                DigitChar((n \div 10) % 10), DigitChar(n % 10)>>

Digits2(n) == <<DigitChar((n \div 10) % 10), DigitChar(n % 10)>>

\* strftime("%Y-%m")
strftime_Ym(dt) == Digits4(dt.year) \o <<"-">> \o Digits2(dt.month)

\* strftime("%Y-%m-%d")
strftime_Ymd(dt) == strftime_Ym(dt) \o <<"-">> \o Digits2(dt.day)

-----------------------------------------------------------------------------
(* class TransactionType(Enum) *)

INCOME == "INCOME"

EXPENSE == "EXPENSE"

\* member.value
TransactionType_value(type) == IF type = INCOME THEN "income" ELSE "expense"

\* TransactionType(value) finds a member; any other value raises ValueError.
IsTransactionTypeValue(value) == value \in {"income", "expense"}

TransactionType(value) == IF value = "income" THEN INCOME ELSE EXPENSE

-----------------------------------------------------------------------------
(* class Transaction and the JSON document *)

Transaction(id, type, amount, category, description, date, tags) ==
    [id |-> id, type |-> type, amount |-> amount, category |-> category,
     description |-> description, date |-> date, tags |-> tags]

\* The keys load_data reads with item[...]; 'tags' is read with item.get.
RequiredKeys == {"id", "type", "amount", "category", "description", "date"}

\* One element of data['transactions'] as save_data writes it.
item_of(t) ==
    [id |-> t.id, type |-> TransactionType_value(t.type), amount |-> t.amount,
     category |-> t.category, description |-> t.description, date |-> t.date,
     tags |-> t.tags]

\* transaction_of forgetting the tags
transaction_of_without_tags(item) ==
    [id |-> item.id, type |-> TransactionType(item.type), amount |-> item.amount,
     category |-> item.category, description |-> item.description, date |-> item.date,
     tags |-> <<>>]

\* One Transaction as load_data builds it from an element of data['transactions'].
transaction_of(item) ==
    Transaction(item.id, TransactionType(item.type), item.amount, item.category,
                item.description, item.date,
                IF "tags" \in DOMAIN item THEN item.tags ELSE <<>>)

\* The file: absent, not parseable as JSON, or a JSON object (data).
NoData == [k \in {} |-> <<>>]

MissingFile == [state |-> "missing", data |-> NoData]

CorruptFile == [state |-> "corrupt", data |-> NoData]

JsonFile(data) == [state |-> "json", data |-> data]

\* The dict save_data builds and json.dump writes.
dump(txs, limits) ==
    [transactions |-> [i \in 1..Len(txs) |-> item_of(txs[i])],
     budget_limits |-> limits]

\* data.get(key, [])
data_get(data, key) == IF key \in DOMAIN data THEN data[key] ELSE <<>>

\* item_error taking every unknown type for an expense
item_error_lenient(item) ==
    IF ~(RequiredKeys \subseteq DOMAIN item) THEN "KeyError" ELSE "none"

\* The exception the list comprehension of load_data raises on one item ("none"
\* when it builds the Transaction): item['id'] and item['type'] are read first,
\* then TransactionType(...) is called, then the other keys are read.
item_error(item) ==
    IF ~({"id", "type"} \subseteq DOMAIN item) THEN "KeyError"
    ELSE IF ~IsTransactionTypeValue(item.type) THEN "ValueError"
    ELSE IF ~(RequiredKeys \subseteq DOMAIN item) THEN "KeyError"
    ELSE "none"

\* load_data reading data['transactions'] and data['budget_limits'] without a default
load_data_strict_keys(file, txs, limits) ==
    IF file.state = "missing"
    THEN [err |-> "none", transactions |-> <<>>, budget_limits |-> EmptyDict]
    ELSE IF file.state = "corrupt"
    THEN [err |-> "JSONDecodeError", transactions |-> txs, budget_limits |-> limits]
    ELSE IF "transactions" \notin DOMAIN file.data
    THEN [err |-> "KeyError", transactions |-> txs, budget_limits |-> limits]
    ELSE LET items == file.data.transactions
             bad == {i \in 1..Len(items) : item_error(items[i]) # "none"}
         IN  IF bad # {}
             THEN [err |-> item_error(items[CHOOSE i \in bad : \A j \in bad : i <= j]),
                   transactions |-> txs, budget_limits |-> limits]
             ELSE IF "budget_limits" \notin DOMAIN file.data
             THEN [err |-> "KeyError",
                   transactions |-> [i \in 1..Len(items) |-> transaction_of(items[i])],
                   budget_limits |-> limits]
             ELSE [err |-> "none",
                   transactions |-> [i \in 1..Len(items) |-> transaction_of(items[i])],
                   budget_limits |-> file.data.budget_limits]

\* load_data: the error it raises ("none" when it returns) and the fields it
\* leaves in self.transactions and self.budget_limits, given the ones before.
load_data(file, txs, limits) ==
    IF file.state = "missing"
    THEN [err |-> "none", transactions |-> <<>>, budget_limits |-> EmptyDict]
    ELSE IF file.state = "corrupt"
    THEN [err |-> "JSONDecodeError", transactions |-> txs, budget_limits |-> limits]
    ELSE LET items == data_get(file.data, "transactions")
             bad == {i \in 1..Len(items) : item_error(items[i]) # "none"}
         IN  IF bad # {}
             THEN [err |-> item_error(items[CHOOSE i \in bad : \A j \in bad : i <= j]),
                   transactions |-> txs, budget_limits |-> limits]
             ELSE [err |-> "none",
                   transactions |-> [i \in 1..Len(items) |-> transaction_of(items[i])],
                   budget_limits |-> data_get(file.data, "budget_limits")]

\* save_data: what the file holds afterwards.  open(..., 'w') may fail and leave
\* the file alone; json.dump may fail after open has truncated the file.
save_data(file, txs, limits, outcome) ==
    IF outcome = "ok" THEN JsonFile(dump(txs, limits))
    ELSE IF outcome = "open_failed" THEN file
    ELSE CorruptFile

SaveOutcomes == {"ok", "open_failed", "write_failed"}

save_error(outcome) == IF outcome = "ok" THEN "none" ELSE "OSError"

\* get_next_id without the + 1
get_next_id_no_increment(txs) ==
    IF txs = <<>> THEN 1
    ELSE MaxOf({txs[i].id : i \in 1..Len(txs)})

\* get_next_id counting the transactions instead of taking the greatest id
get_next_id_by_length(txs) == Len(txs) + 1

\* get_next_id
get_next_id(txs) ==
    IF txs = <<>> THEN 1
    ELSE MaxOf({txs[i].id : i \in 1..Len(txs)}) + 1

-----------------------------------------------------------------------------
(* The queries *)

Ok(value) == [err |-> "none", value |-> value]

Raised(err, value) == [err |-> err, value |-> value]

\* month is None or trans_date.strftime("%Y-%m") == month
in_month(trans_date, month) == month = None \/ strftime_Ym(trans_date) = month[1]

\* The loop of get_category_spending from element i on.
RECURSIVE category_spending_from(_, _, _, _)
category_spending_from(txs, month, i, spending) ==
    IF i > Len(txs) THEN Ok(spending)
    ELSE LET t == txs[i]
             trans_date == strptime(t.date)
         IN  IF t.type # EXPENSE
             THEN category_spending_from(txs, month, i + 1, spending)
             ELSE IF ~trans_date.ok THEN Raised("ValueError", EmptyDict)
             ELSE IF in_month(trans_date, month)
             THEN category_spending_from(txs, month, i + 1,
                      DictSet(spending, t.category,
                              DictGet(spending, t.category, 0) + t.amount))
             ELSE category_spending_from(txs, month, i + 1, spending)

\* get_category_spending without the test of the transaction type
RECURSIVE category_spending_any_type_from(_, _, _, _)
category_spending_any_type_from(txs, month, i, spending) ==
    IF i > Len(txs) THEN Ok(spending)
    ELSE LET t == txs[i]
             trans_date == strptime(t.date)
         IN  IF ~trans_date.ok THEN Raised("ValueError", EmptyDict)
             ELSE IF in_month(trans_date, month)
             THEN category_spending_any_type_from(txs, month, i + 1,
                      DictSet(spending, t.category,
                              DictGet(spending, t.category, 0) + t.amount))
             ELSE category_spending_any_type_from(txs, month, i + 1, spending)

get_category_spending_any_type(txs, month) ==
    category_spending_any_type_from(txs, month, 1, EmptyDict)

\* get_category_spending passing over the expenses of amount zero
RECURSIVE category_spending_skipping_zero_from(_, _, _, _)
category_spending_skipping_zero_from(txs, month, i, spending) ==
    IF i > Len(txs) THEN Ok(spending)
    ELSE LET t == txs[i]
             trans_date == strptime(t.date)
         IN  IF t.type # EXPENSE
             THEN category_spending_skipping_zero_from(txs, month, i + 1, spending)
             ELSE IF ~trans_date.ok THEN Raised("ValueError", EmptyDict)
             ELSE IF in_month(trans_date, month) /\ t.amount # 0
             THEN category_spending_skipping_zero_from(txs, month, i + 1,
                      DictSet(spending, t.category,
                              DictGet(spending, t.category, 0) + t.amount))
             ELSE category_spending_skipping_zero_from(txs, month, i + 1, spending)

get_category_spending_skipping_zero(txs, month) ==
    category_spending_skipping_zero_from(txs, month, 1, EmptyDict)

get_category_spending(txs, month) == category_spending_from(txs, month, 1, EmptyDict)

Alert(category, limit, spent) ==
    [category |-> category, limit |-> limit, spent |-> spent, exceeded_by |-> spent - limit]

\* check_budget_alerts comparing with >= instead of >
RECURSIVE alerts_at_limit_from(_, _, _, _)
alerts_at_limit_from(limits, category_spending, i, alerts) ==
    IF i > Len(limits) THEN alerts
    ELSE LET category == limits[i].key
             limit == limits[i].value
             spent == DictGet(category_spending, category, 0)
         IN  alerts_at_limit_from(limits, category_spending, i + 1,
                         IF spent >= limit
                         THEN Append(alerts, Alert(category, limit, spent))
                         ELSE alerts)

\* The loop of check_budget_alerts over budget_limits.items() from entry i on.
RECURSIVE alerts_from(_, _, _, _)
alerts_from(limits, category_spending, i, alerts) ==
    IF i > Len(limits) THEN alerts
    ELSE LET category == limits[i].key
             limit == limits[i].value
             spent == DictGet(category_spending, category, 0)
         IN  alerts_from(limits, category_spending, i + 1,
                         IF spent > limit
                         THEN Append(alerts, Alert(category, limit, spent))
                         ELSE alerts)

check_budget_alerts(txs, limits, month) ==
    LET category_spending == get_category_spending(txs, month)
    IN  IF category_spending.err # "none" THEN Raised(category_spending.err, <<>>)
        ELSE Ok(alerts_from(limits, category_spending.value, 1, <<>>))

\* A quotient that is not rounded: numerator over denominator.
Ratio(num, den) == [num |-> num, den |-> den]

\* a / b * 100
percent_of(a, b) ==
    IF b = 0 THEN Raised("ZeroDivisionError", Ratio(0, 1)) ELSE Ok(Ratio(a * 100, b))

\* profit_margin without the test of total_income
profit_margin_unguarded(net_profit, total_income) == percent_of(net_profit, total_income)

\* (net_profit / total_income * 100) if total_income > 0 else 0
profit_margin(net_profit, total_income) ==
    IF total_income > 0 THEN percent_of(net_profit, total_income) ELSE Ok(Ratio(0, 1))

\* The loop of calculate_profit_loss from element i on.
RECURSIVE profit_loss_from(_, _, _, _, _)
profit_loss_from(txs, month, i, total_income, total_expenses) ==
    IF i > Len(txs)
    THEN LET net_profit == total_income - total_expenses
             margin == profit_margin(net_profit, total_income)
         IN  IF margin.err # "none" THEN Raised(margin.err, <<>>)
             ELSE Ok(<<[total_income |-> total_income,
                        total_expenses |-> total_expenses,
                        net_profit |-> net_profit,
                        profit_margin |-> margin.value,
                        is_profitable |-> net_profit > 0]>>)
    ELSE LET t == txs[i]
             trans_date == strptime(t.date)
         IN  IF ~trans_date.ok THEN Raised("ValueError", <<>>)
             ELSE IF in_month(trans_date, month)
             THEN IF t.type = INCOME
                  THEN profit_loss_from(txs, month, i + 1, total_income + t.amount, total_expenses)
                  ELSE profit_loss_from(txs, month, i + 1, total_income, total_expenses + t.amount)
             ELSE profit_loss_from(txs, month, i + 1, total_income, total_expenses)

calculate_profit_loss(txs, month) == profit_loss_from(txs, month, 1, 0, 0)

\* The loop of get_monthly_summary from element i on.
RECURSIVE monthly_summary_from(_, _, _)
monthly_summary_from(txs, i, monthly_data) ==
    IF i > Len(txs) THEN monthly_data
    ELSE LET t == txs[i]
             month == Prefix(t.date, 7)
             entry == DictGet(monthly_data, month, [income |-> 0, expenses |-> 0])
         IN  monthly_summary_from(txs, i + 1,
                 DictSet(monthly_data, month,
                         IF t.type = INCOME
                         THEN [entry EXCEPT !.income = @ + t.amount]
                         ELSE [entry EXCEPT !.expenses = @ + t.amount]))

\* get_monthly_summary keyed by date[:4], the year
RECURSIVE monthly_summary_by_year_from(_, _, _)
monthly_summary_by_year_from(txs, i, monthly_data) ==
    IF i > Len(txs) THEN monthly_data
    ELSE LET t == txs[i]
             month == Prefix(t.date, 4)
             entry == DictGet(monthly_data, month, [income |-> 0, expenses |-> 0])
         IN  monthly_summary_by_year_from(txs, i + 1,
                 DictSet(monthly_data, month,
                         IF t.type = INCOME
                         THEN [entry EXCEPT !.income = @ + t.amount]
                         ELSE [entry EXCEPT !.expenses = @ + t.amount]))

get_monthly_summary_by_year(txs) == monthly_summary_by_year_from(txs, 1, EmptyDict)

get_monthly_summary(txs) == monthly_summary_from(txs, 1, EmptyDict)

\* query.lower() in transaction.description.lower()
description_matches(t, query) == Contains(lower(t.description), lower(query))

\* any(query.lower() in tag.lower() for tag in transaction.tags)
tags_match(t, query) ==
    \E k \in 1..Len(t.tags) : Contains(lower(t.tags[k]), lower(query))

\* search_transactions looking at both fields whatever the search type
search_selects_any_field(t, query, search_type) ==
    description_matches(t, query) \/ tags_match(t, query)

\* The if / elif of search_transactions: is the transaction appended?
search_selects(t, query, search_type) ==
    IF search_type \in {"all", "description"} /\ description_matches(t, query) THEN TRUE
    ELSE IF search_type \in {"all", "tags"} /\ tags_match(t, query) THEN TRUE
    ELSE FALSE

\* search_transactions with a second if in place of the elif
RECURSIVE search_from_two_ifs(_, _, _, _, _)
search_from_two_ifs(txs, query, search_type, i, results) ==
    IF i > Len(txs) THEN results
    ELSE LET by_description ==
                 IF search_type \in {"all", "description"} /\ description_matches(txs[i], query)
                 THEN Append(results, txs[i]) ELSE results
             by_tags ==
                 IF search_type \in {"all", "tags"} /\ tags_match(txs[i], query)
                 THEN Append(by_description, txs[i]) ELSE by_description
         IN  search_from_two_ifs(txs, query, search_type, i + 1, by_tags)

\* The loop of search_transactions from element i on.
RECURSIVE search_from(_, _, _, _, _)
search_from(txs, query, search_type, i, results) ==
    IF i > Len(txs) THEN results
    ELSE search_from(txs, query, search_type, i + 1,
                     IF search_selects(txs[i], query, search_type)
                     THEN Append(results, txs[i])
                     ELSE results)

search_transactions(txs, query, search_type) == search_from(txs, query, search_type, 1, <<>>)

\* delete_transaction removing the first match only, as list.remove would
delete_filter_first_match(txs, transaction_id) ==
    IF \E i \in 1..Len(txs) : txs[i].id = transaction_id
    THEN LET i == CHOOSE k \in 1..Len(txs) :
                      txs[k].id = transaction_id /\ \A j \in 1..(k - 1) : txs[j].id # transaction_id
         IN  SubSeq(txs, 1, i - 1) \o SubSeq(txs, i + 1, Len(txs))
    ELSE txs

\* The list comprehension of delete_transaction.
delete_filter(txs, transaction_id) ==
    LET Keep(t) == t.id # transaction_id IN SelectSeq(txs, Keep)

-----------------------------------------------------------------------------
(* Inputs *)

Dinner == <<"D","i","n","n","e","r">>

Gas == <<"G","a","s">>

dinner == <<"d","i","n","n","e","r">>

car == <<"c","a","r">>

Jan31 == [year |-> 2024, month |-> 1, day |-> 31]

Feb01 == [year |-> 2024, month |-> 2, day |-> 1]

\* datetime.datetime.now()
NowDates == {Jan31, Feb01}

Months == {None, Some(strftime_Ym(Jan31))}

\* What the callers of add_transaction pass, and the day of the call.
AddArgs ==
    { [type |-> INCOME,  amount |-> 5, category |-> "Salary", description |-> Gas,
       tags |-> <<>>, now |-> Jan31],
      [type |-> EXPENSE, amount |-> 2, category |-> "Food", description |-> Dinner,
       tags |-> <<car, dinner>>, now |-> Jan31],
      [type |-> EXPENSE, amount |-> 2, category |-> "Food", description |-> Dinner,
       tags |-> <<car, dinner>>, now |-> Feb01] }

\* What the callers of set_budget_limit pass.
BudgetArgs ==
    { [category |-> "Food", limit |-> 2], [category |-> "Food", limit |-> 3],
      [category |-> "Salary", limit |-> 0] }

SearchTypes == {"all", "description", "tags"}

\* Documents the file may hold when the program starts.
SavedItem(id, a, date) ==
    [id |-> id, type |-> TransactionType_value(a.type), amount |-> a.amount,
     category |-> a.category, description |-> a.description,
     date |-> strftime_Ymd(date), tags |-> a.tags]

FoodItem(id) == SavedItem(id, [type |-> EXPENSE, amount |-> 2, category |-> "Food",
                               description |-> Dinner, tags |-> <<car>>], Jan31)

Untagged(id) ==
    [id |-> id, type |-> "income", amount |-> 5, category |-> "Salary",
     description |-> Gas, date |-> strftime_Ymd(Feb01)]

FoodLimit == <<[key |-> "Food", value |-> 2]>>

InitialFiles ==
    { MissingFile,
      CorruptFile,
      JsonFile(NoData),
      JsonFile([transactions |-> <<FoodItem(1)>>]),
      JsonFile([budget_limits |-> FoodLimit]),
      JsonFile([transactions |-> <<FoodItem(2), Untagged(2)>>, budget_limits |-> FoodLimit]),
      JsonFile([transactions |-> <<Untagged(3), FoodItem(1)>>, budget_limits |-> EmptyDict]),
      JsonFile([transactions |-> <<FoodItem(0)>>, budget_limits |-> FoodLimit]),
      JsonFile([transactions |-> <<FoodItem(1), [FoodItem(2) EXCEPT !.type = "transfer"],
                                   FoodItem(3)>>,
                budget_limits |-> FoodLimit]) }

-----------------------------------------------------------------------------
(* The calls *)

NoArgs ==
    [type |-> "", amount |-> 0, category |-> "", description |-> <<>>, tags |-> <<>>,
     now |-> <<>>, limit |-> 0, transaction_id |-> 0, month |-> None, query |-> <<>>,
     search_type |-> ""]

NoRet ==
    [transaction |-> <<>>, spending |-> <<>>, alerts |-> <<>>, profit_loss |-> <<>>,
     summary |-> <<>>, results |-> <<>>]

Call(op, args, err) == [op |-> op, args |-> args, err |-> err]

\* ExpenseTracker(): __init__ empties the fields and calls load_data.
Construct(file) ==
    LET loaded == load_data(file, <<>>, EmptyDict)
    IN  /\ running' = (loaded.err = "none")
        /\ transactions' = loaded.transactions
        /\ budget_limits' = loaded.budget_limits
        /\ call' = Call("init", NoArgs, loaded.err)
        /\ ret' = NoRet

\* The state after ExpenseTracker() has been constructed over one of the files.
Started(files) ==
    /\ data_file \in files
    /\ running = (load_data(data_file, <<>>, EmptyDict).err = "none")
    /\ transactions = load_data(data_file, <<>>, EmptyDict).transactions
    /\ budget_limits = load_data(data_file, <<>>, EmptyDict).budget_limits
    /\ call = Call("init", NoArgs, load_data(data_file, <<>>, EmptyDict).err)
    /\ ret = NoRet
    /\ issued_ids = {}
    /\ faults = 0

Init == Started(InitialFiles)

\* The program is started again.
Restart ==
    /\ Construct(data_file)
    /\ UNCHANGED <<data_file, issued_ids, faults>>

\* A write may fail while fewer than MaxFaults writes have failed.
Faulty(outcome) ==
    /\ outcome # "ok" => faults < MaxFaults
    /\ faults' = IF outcome = "ok" THEN faults ELSE faults + 1

\* add_transaction taking the transaction out again when the write fails
AddTransaction_rolled_back(a, outcome) ==
    LET transaction == Transaction(get_next_id(transactions), a.type, a.amount, a.category,
                                   a.description, strftime_Ymd(a.now), a.tags)
    IN  /\ running
        /\ Len(transactions) < MaxTx
        /\ transaction.id <= MaxId
        /\ Faulty(outcome)
        /\ transactions' = IF outcome = "ok" THEN Append(transactions, transaction)
                           ELSE transactions
        /\ data_file' = save_data(data_file, Append(transactions, transaction),
                                  budget_limits, outcome)
        /\ call' = Call("add_transaction",
                        [NoArgs EXCEPT !.type = a.type, !.amount = a.amount,
                                       !.category = a.category,
                                       !.description = a.description, !.tags = a.tags,
                                       !.now = <<a.now>>],
                        save_error(outcome))
        /\ ret' = IF outcome = "ok" THEN [NoRet EXCEPT !.transaction = <<transaction>>] ELSE NoRet
        /\ issued_ids' = IF outcome = "ok" THEN issued_ids \cup {transaction.id}
                         ELSE issued_ids
        /\ UNCHANGED <<running, budget_limits>>

AddTransaction(a, outcome) ==
    LET transaction == Transaction(get_next_id(transactions), a.type, a.amount, a.category,
                                   a.description, strftime_Ymd(a.now), a.tags)
    IN  /\ running
        /\ Len(transactions) < MaxTx
        /\ transaction.id <= MaxId
        /\ Faulty(outcome)
        /\ transactions' = Append(transactions, transaction)
        /\ data_file' = save_data(data_file, transactions', budget_limits, outcome)
        /\ call' = Call("add_transaction",
                        [NoArgs EXCEPT !.type = a.type, !.amount = a.amount,
                                       !.category = a.category,
                                       !.description = a.description, !.tags = a.tags,
                                       !.now = <<a.now>>],
                        save_error(outcome))
        /\ ret' = IF outcome = "ok" THEN [NoRet EXCEPT !.transaction = <<transaction>>] ELSE NoRet
        /\ issued_ids' = IF outcome = "ok" THEN issued_ids \cup {transaction.id}
                         ELSE issued_ids
        /\ UNCHANGED <<running, budget_limits>>

SetBudgetLimit(category, limit, outcome) ==
    /\ running
    /\ Faulty(outcome)
    /\ budget_limits' = DictSet(budget_limits, category, limit)
    /\ data_file' = save_data(data_file, transactions, budget_limits', outcome)
    /\ call' = Call("set_budget_limit",
                    [NoArgs EXCEPT !.category = category, !.limit = limit],
                    save_error(outcome))
    /\ ret' = NoRet
    /\ UNCHANGED <<running, transactions, issued_ids>>

\* delete_transaction without its call of save_data
DeleteTransaction_unsaved(transaction_id, outcome) ==
    /\ running
    /\ Faulty(outcome)
    /\ transactions' = delete_filter(transactions, transaction_id)
    /\ call' = Call("delete_transaction",
                    [NoArgs EXCEPT !.transaction_id = transaction_id],
                    "none")
    /\ ret' = NoRet
    /\ UNCHANGED <<data_file, running, budget_limits, issued_ids>>

DeleteTransaction(transaction_id, outcome) ==
    /\ running
    /\ Faulty(outcome)
    /\ transactions' = delete_filter(transactions, transaction_id)
    /\ data_file' = save_data(data_file, transactions', budget_limits, outcome)
    /\ call' = Call("delete_transaction",
                    [NoArgs EXCEPT !.transaction_id = transaction_id],
                    save_error(outcome))
    /\ ret' = NoRet
    /\ UNCHANGED <<running, budget_limits, issued_ids>>

\* A query that writes the file when it is done
Query_saving(op, args, result, field) ==
    /\ running
    /\ call' = Call(op, args, result.err)
    /\ ret' = [NoRet EXCEPT ![field] = result.value]
    /\ data_file' = save_data(data_file, transactions, budget_limits, "ok")
    /\ UNCHANGED <<running, transactions, budget_limits, issued_ids, faults>>

Query(op, args, result, field) ==
    /\ running
    /\ call' = Call(op, args, result.err)
    /\ ret' = [NoRet EXCEPT ![field] = result.value]
    /\ UNCHANGED <<data_file, running, transactions, budget_limits, issued_ids, faults>>

CategorySpending(month) ==
    Query("get_category_spending", [NoArgs EXCEPT !.month = month],
          get_category_spending(transactions, month), "spending")

CheckBudgetAlerts(month) ==
    Query("check_budget_alerts", [NoArgs EXCEPT !.month = month],
          check_budget_alerts(transactions, budget_limits, month), "alerts")

CalculateProfitLoss(month) ==
    Query("calculate_profit_loss", [NoArgs EXCEPT !.month = month],
          calculate_profit_loss(transactions, month), "profit_loss")

MonthlySummary ==
    Query("get_monthly_summary", NoArgs, Ok(get_monthly_summary(transactions)), "summary")

SearchTransactions(query, search_type) ==
    Query("search_transactions", [NoArgs EXCEPT !.query = query, !.search_type = search_type],
          Ok(search_transactions(transactions, query, search_type)), "results")

Ids == 1..MaxId

Mutation ==
    \/ \E a \in AddArgs, outcome \in SaveOutcomes : AddTransaction(a, outcome)
    \/ \E b \in BudgetArgs, outcome \in SaveOutcomes : SetBudgetLimit(b.category, b.limit, outcome)
    \/ \E id \in Ids, outcome \in SaveOutcomes : DeleteTransaction(id, outcome)

Next ==
    \/ Restart
    \/ Mutation

Spec == Init /\ [][Next]_vars

\* The program is first run with no file.
InitEmpty == Started({MissingFile})

SpecEmpty == InitEmpty /\ [][Next]_vars

\* Only add_transaction is called, on an empty or a loaded ledger.
NextAdds ==
    \E a \in AddArgs, outcome \in SaveOutcomes : AddTransaction(a, outcome)

SpecAdds == Init /\ [][NextAdds]_vars

-----------------------------------------------------------------------------
(* The aggregate queries on ledgers of every shape *)

Amounts == {0, 1, 2}

Categories == {"Food", "Salary"}

LedgerItem(id, type, amount, category, description, date, tags) ==
    [id |-> id, type |-> type, amount |-> amount, category |-> category,
     description |-> description, date |-> strftime_Ymd(date), tags |-> tags]

SpendingEntries ==
    [type : {"income", "expense"}, amount : Amounts, category : Categories, date : NowDates]

SpendingLimits ==
    { EmptyDict,
      <<[key |-> "Food", value |-> 2]>>,
      <<[key |-> "Salary", value |-> 0], [key |-> "Food", value |-> 1]>> }

SpendingFiles ==
    { JsonFile([transactions |->
                    [i \in 1..Len(q) |->
                        LedgerItem(i, q[i].type, q[i].amount, q[i].category, Gas,
                                   q[i].date, <<>>)],
                budget_limits |-> limits]) :
      q \in SeqsUpTo(SpendingEntries, MaxTx), limits \in SpendingLimits }

InitSpending == Started(SpendingFiles)

NextSpending ==
    \/ \E month \in Months : CategorySpending(month)
    \/ \E month \in Months : CheckBudgetAlerts(month)
    \/ \E month \in Months : CalculateProfitLoss(month)
    \/ MonthlySummary

SpecSpending == InitSpending /\ [][NextSpending]_vars

-----------------------------------------------------------------------------
(* search_transactions on ledgers of every shape *)

Descriptions == {Dinner, Gas, <<>>}

TagLists == {<<>>, <<car>>, <<dinner>>, <<car, dinner>>}

SearchEntries == [description : Descriptions, tags : TagLists]

SearchFiles ==
    { JsonFile([transactions |->
                    [i \in 1..Len(q) |->
                        LedgerItem(i, "expense", 1, "Food", q[i].description, Jan31,
                                   q[i].tags)],
                budget_limits |-> EmptyDict]) :
      q \in SeqsUpTo(SearchEntries, MaxTx) }

InitSearch == Started(SearchFiles)

SearchQueries == { <<"d","i","n">>, <<"A">>, <<"D","I","N","N","E","R">>, <<>> }

NextSearch ==
    \E query \in SearchQueries, search_type \in SearchTypes : SearchTransactions(query, search_type)

SpecSearch == InitSearch /\ [][NextSearch]_vars

-----------------------------------------------------------------------------
(* The forms of ExpenseTrackerGUI *)

Whitespace == {" "}

RECURSIVE lstrip(_)
lstrip(t) == IF t # <<>> /\ Head(t) \in Whitespace THEN lstrip(Tail(t)) ELSE t

RECURSIVE rstrip(_)
rstrip(t) ==
    IF t # <<>> /\ t[Len(t)] \in Whitespace THEN rstrip(SubSeq(t, 1, Len(t) - 1)) ELSE t

\* str.strip()
strip(t) == rstrip(lstrip(t))

\* str.split(sep): the parts between the separators, the empty ones included
RECURSIVE split_from(_, _, _, _, _)
split_from(t, sep, i, part, parts) ==
    IF i > Len(t) THEN Append(parts, part)
    ELSE IF t[i] = sep THEN split_from(t, sep, i + 1, <<>>, Append(parts, part))
    ELSE split_from(t, sep, i + 1, Append(part, t[i]), parts)

split(t, sep) == split_from(t, sep, 1, <<>>, <<>>)

\* [tag.strip() for tag in text.split(',') if tag.strip()]
RECURSIVE tags_from(_, _, _)
tags_from(parts, i, tags) ==
    IF i > Len(parts) THEN tags
    ELSE tags_from(parts, i + 1,
                   IF strip(parts[i]) # <<>> THEN Append(tags, strip(parts[i])) ELSE tags)

form_tags(text) == tags_from(split(text, ","), 1, <<>>)

\* add_transaction_gui with no check of the amount
transaction_form_error_any_amount(form) ==
    IF form.amount = None THEN "TclError"
    ELSE IF form.category = "" \/ form.description = <<>>
    THEN "Category and description are required"
    ELSE "none"

\* The message add_transaction_gui shows, or the error DoubleVar.get() raises,
\* before the ledger is called; "none" when the form goes through.
transaction_form_error(form) ==
    IF form.amount = None THEN "TclError"
    ELSE IF form.amount[1] <= 0 THEN "Amount must be positive"
    ELSE IF form.category = "" \/ form.description = <<>>
    THEN "Category and description are required"
    ELSE "none"

\* The same for set_budget_gui.
budget_form_error(form) ==
    IF form.limit = None THEN "TclError"
    ELSE IF form.category = "" THEN "Please select a category"
    ELSE IF form.limit[1] <= 0 THEN "Budget limit must be positive"
    ELSE "none"

\* A handler returns, or fails, before it has called the ledger.
Rejected(op, args, error) ==
    /\ running
    /\ call' = Call(op, args, error)
    /\ ret' = NoRet
    /\ UNCHANGED <<data_file, running, transactions, budget_limits, issued_ids, faults>>

\* The button of the transaction form.
AddTransactionGui(form, now) ==
    LET error == transaction_form_error(form)
        tags == form_tags(form.tags)
    IN  IF error # "none"
        THEN Rejected("add_transaction_gui",
                      [NoArgs EXCEPT !.amount = IF form.amount = None THEN 0 ELSE form.amount[1],
                                     !.category = form.category,
                                     !.description = form.description, !.tags = tags],
                      error)
        ELSE \E outcome \in SaveOutcomes :
                 AddTransaction([type |-> TransactionType(form.trans_type),
                                 amount |-> form.amount[1], category |-> form.category,
                                 description |-> form.description, tags |-> tags,
                                 now |-> now],
                                outcome)

\* The button of the budget form.
SetBudgetGui(form) ==
    LET error == budget_form_error(form)
    IN  IF error # "none"
        THEN Rejected("set_budget_gui",
                      [NoArgs EXCEPT !.category = form.category,
                                     !.limit = IF form.limit = None THEN 0 ELSE form.limit[1]],
                      error)
        ELSE \E outcome \in SaveOutcomes :
                 SetBudgetLimit(form.category, form.limit[1], outcome)

\* What is typed into the fields.
TypedNumbers == {None, Some(0 - 1), Some(0), Some(2)}

TagTexts == {car \o <<",", " ", ",", " ">> \o dinner \o <<" ">>}

TransactionForms ==
    [trans_type : {"income", "expense"}, amount : TypedNumbers, category : {"", "Food"},
     description : {<<>>, Gas}, tags : TagTexts]

BudgetForms == [category : {"", "Food"}, limit : TypedNumbers]

NextForms ==
    \/ \E form \in TransactionForms : AddTransactionGui(form, Jan31)
    \/ \E form \in BudgetForms : SetBudgetGui(form)

\* The program is first run with no file and used through its two forms.
SpecForms == InitEmpty /\ [][NextForms]_vars

-----------------------------------------------------------------------------
(* The ledger called directly, with amounts no form has looked at *)

LedgerArgs ==
    { [type |-> EXPENSE, amount |-> amount, category |-> "Food", description |-> Dinner,
       tags |-> <<dinner>>, now |-> Jan31] : amount \in {0 - 2, 0, 2} }

LedgerLimits == { [category |-> "Food", limit |-> 1] }

NextLedger ==
    \/ \E a \in LedgerArgs, outcome \in SaveOutcomes : AddTransaction(a, outcome)
    \/ \E b \in LedgerLimits, outcome \in SaveOutcomes :
           SetBudgetLimit(b.category, b.limit, outcome)
    \/ \E id \in Ids, outcome \in SaveOutcomes : DeleteTransaction(id, outcome)
    \/ \E month \in Months : CategorySpending(month)
    \/ CheckBudgetAlerts(None)
    \/ CalculateProfitLoss(None)
    \/ MonthlySummary
    \/ SearchTransactions(<<"d","i","n">>, "all")

SpecLedger == InitEmpty /\ [][NextLedger]_vars

-----------------------------------------------------------------------------
(* Identifiers *)

Returned(c, r) == c.op = "add_transaction" /\ c.err = "none" /\ Len(r.transaction) = 1

IdsOf(txs) == {txs[i].id : i \in 1..Len(txs)}

C2_NeverHandedOutAgain ==
    [][Returned(call', ret') =>
          \A id \in issued_ids : ret'.transaction[1].id > id]_vars

\* C2: over adds and deletes, a returned id is greater than the id of every
\* transaction that is in the list when add_transaction is called.
C2_GreaterThanEveryListedId ==
    [][Returned(call', ret') =>
          \A id \in IdsOf(transactions) : ret'.transaction[1].id > id]_vars

\* An add has returned after two ids were issued and transactions deleted.
C2_Witness ==
    /\ Returned(call, ret)
    /\ Cardinality(issued_ids) = 2
    /\ Len(transactions) = 1
    /\ data_file = JsonFile(dump(transactions, budget_limits))

\* C3: starting with no file, no two transactions of the list have the same id.
C3_IdsDistinct ==
    \A i, j \in 1..Len(transactions) :
        transactions[i].id = transactions[j].id => i = j

\* An add on a list whose first transaction was deleted, with a limit set.
C3_Witness ==
    /\ Returned(call, ret)
    /\ Len(transactions) = 2
    /\ transactions[1].id = 2
    /\ budget_limits # EmptyDict

-----------------------------------------------------------------------------
(* Deletion and persistence *)

Deleted(c) == c.op = "delete_transaction" /\ c.err = "none"

\* C4: a second delete_transaction of the same id, right after the first, leaves
\* the list, the limits and the file as the first left them.
C4_DeleteIdempotent ==
    [][(/\ Deleted(call)
        /\ Deleted(call')
        /\ call'.args.transaction_id = call.args.transaction_id)
       => /\ transactions' = transactions
          /\ budget_limits' = budget_limits
          /\ data_file' = data_file]_vars

\* An issued id has been deleted from a list that keeps another transaction.
C4_Witness ==
    /\ Deleted(call)
    /\ call.args.transaction_id \in issued_ids
    /\ call.args.transaction_id \notin IdsOf(transactions)
    /\ transactions # <<>>

\* C5: loading the document that save_data writes for the ledger gives back the
\* same transactions in the same order and the same limits.
C5_SaveLoadRoundTrip ==
    LET loaded == load_data(save_data(data_file, transactions, budget_limits, "ok"),
                            <<>>, EmptyDict)
    IN  running => /\ loaded.err = "none"
                   /\ loaded.transactions = transactions
                   /\ loaded.budget_limits = budget_limits

\* The program was started again on a file it wrote: tagged and untagged
\* transactions of both kinds, and a limit.
C5_Witness ==
    /\ call.op = "init"
    /\ running
    /\ issued_ids # {}
    /\ \E i, j \in 1..Len(transactions) :
          /\ transactions[i].type = INCOME /\ transactions[i].tags = <<>>
          /\ transactions[j].type = EXPENSE /\ transactions[j].tags # <<>>
    /\ budget_limits # EmptyDict

Mutating(c) == c.op \in {"add_transaction", "set_budget_limit", "delete_transaction"}

\* C6: after a mutating call that raised nothing, the file holds the transactions
\* and the limits that are in memory.
C6_FileFollowsMemory ==
    (Mutating(call) /\ call.err = "none") =>
        LET stored == load_data(data_file, <<>>, EmptyDict)
        IN  /\ data_file.state = "json"
            /\ stored.err = "none"
            /\ stored.transactions = transactions
            /\ stored.budget_limits = budget_limits

\* A delete was written after an earlier write had failed.
C6_Witness ==
    /\ Deleted(call)
    /\ faults > 0
    /\ transactions # <<>>
    /\ budget_limits # EmptyDict

-----------------------------------------------------------------------------
(* Aggregates *)

Asked(op) == call.op = op /\ running

\* The year and the month a "YYYY-MM..." text names.
YearOf(text) == Number(SubSeq(text, 1, 4))

MonthOf(text) == Number(SubSeq(text, 6, 7))

\* The date of t falls in the month; every date does when no month is given.
FallsIn(t, month) ==
    month = None \/ (YearOf(t.date) = YearOf(month[1]) /\ MonthOf(t.date) = MonthOf(month[1]))

RECURSIVE SumAmounts(_)
SumAmounts(txs) == IF txs = <<>> THEN 0 ELSE Head(txs).amount + SumAmounts(Tail(txs))

\* The transactions of one type in the month, and those of one category among them.
OfType(type, month) ==
    LET Chosen(t) == t.type = type /\ FallsIn(t, month) IN SelectSeq(transactions, Chosen)

OfCategory(txs, category) ==
    LET Chosen(t) == t.category = category IN SelectSeq(txs, Chosen)

ExpenseCategories(month) ==
    {OfType(EXPENSE, month)[i].category : i \in 1..Len(OfType(EXPENSE, month))}

\* C7: get_category_spending(month) has one entry for each category with an
\* expense dated in the month, holding the sum of the amounts of these expenses;
\* income adds nothing and gives a category no entry.
C7_SpendingSumsExpenses ==
    Asked("get_category_spending") =>
        LET month == call.args.month
        IN  /\ call.err = "none"
            /\ DictKeys(ret.spending) = ExpenseCategories(month)
            /\ Len(ret.spending) = Cardinality(ExpenseCategories(month))
            /\ \A c \in ExpenseCategories(month) :
                   DictGet(ret.spending, c, 0)
                       = SumAmounts(OfCategory(OfType(EXPENSE, month), c))

\* Spending of one month was asked for: one category has an expense in the month,
\* the other has only income in it and is absent from the result.
C7_Witness ==
    /\ Asked("get_category_spending")
    /\ call.args.month # None
    /\ \E c \in DictKeys(ret.spending) : DictGet(ret.spending, c, 0) > 0
    /\ \E t \in Range(transactions) :
          /\ t.type = INCOME /\ t.amount > 0 /\ FallsIn(t, call.args.month)
          /\ ~DictHas(ret.spending, t.category)

\* What get_category_spending(month) gives for the category, 0 when absent.
Spent(category, month) ==
    DictGet(get_category_spending(transactions, month).value, category, 0)

AlertedCategories == {ret.alerts[i].category : i \in 1..Len(ret.alerts)}

\* C8: check_budget_alerts(month) alerts a category iff it has a limit and its
\* spending is greater than the limit, once, with exceeded_by = spent - limit > 0.
C8_AlertIffOverLimit ==
    Asked("check_budget_alerts") =>
        LET month == call.args.month
        IN  /\ call.err = "none"
            /\ \A c \in Categories \cup AlertedCategories :
                   c \in AlertedCategories <=>
                       /\ DictHas(budget_limits, c)
                       /\ Spent(c, month) > DictGet(budget_limits, c, 0)
            /\ \A i, j \in 1..Len(ret.alerts) :
                   ret.alerts[i].category = ret.alerts[j].category => i = j
            /\ \A i \in 1..Len(ret.alerts) :
                   LET alert == ret.alerts[i]
                   IN  /\ alert.limit = DictGet(budget_limits, alert.category, 0)
                       /\ alert.spent = Spent(alert.category, month)
                       /\ alert.exceeded_by = alert.spent - alert.limit
                       /\ alert.exceeded_by > 0

\* One category is alerted while another has spent exactly its limit.
C8_Witness ==
    /\ Asked("check_budget_alerts")
    /\ ret.alerts # <<>>
    /\ \E c \in DictKeys(budget_limits) :
          /\ Spent(c, call.args.month) = DictGet(budget_limits, c, 0)
          /\ Spent(c, call.args.month) > 0
          /\ c \notin AlertedCategories

\* C9: when the transactions of the month have income 0 and expenses above 0,
\* calculate_profit_loss returns a margin of 0 and is_profitable false, with no
\* ZeroDivisionError.
C9_NoIncomeNoMargin ==
    (/\ Asked("calculate_profit_loss")
     /\ SumAmounts(OfType(INCOME, call.args.month)) = 0
     /\ SumAmounts(OfType(EXPENSE, call.args.month)) > 0)
    => /\ call.err = "none"
       /\ Len(ret.profit_loss) = 1
       /\ ret.profit_loss[1].profit_margin.num = 0
       /\ ret.profit_loss[1].profit_margin.den # 0
       /\ ret.profit_loss[1].is_profitable = FALSE

\* Profit and loss of a month with expenses and no income, in a ledger that has
\* income in another month.
C9_Witness ==
    /\ Asked("calculate_profit_loss")
    /\ call.args.month # None
    /\ SumAmounts(OfType(INCOME, call.args.month)) = 0
    /\ SumAmounts(OfType(EXPENSE, call.args.month)) > 0
    /\ SumAmounts(OfType(INCOME, None)) > 0
    /\ Len(ret.profit_loss) = 1

-----------------------------------------------------------------------------
(* Search *)

\* q is a substring of t when case is ignored.
InsideIgnoringCase(q, t) ==
    \E k \in 0..(Len(t) - Len(q)) : \A j \in 1..Len(q) : LowerChar(t[k + j]) = LowerChar(q[j])

InDescription(t, q) == InsideIgnoringCase(q, t.description)

InSomeTag(t, q) == \E k \in 1..Len(t.tags) : InsideIgnoringCase(q, t.tags[k])

\* C10: search_transactions returns a transaction iff, ignoring case, the query is
\* inside its description (type "description"), inside one of its tags (type
\* "tags"), or either (type "all").
C10_SearchByMode ==
    Asked("search_transactions") =>
        LET q == call.args.query
            type == call.args.search_type
        IN  /\ Range(ret.results) \subseteq Range(transactions)
            /\ \A t \in Range(transactions) :
                   t \in Range(ret.results) <=>
                       CASE type = "description" -> InDescription(t, q)
                         [] type = "tags" -> InSomeTag(t, q)
                         [] type = "all" -> InDescription(t, q) \/ InSomeTag(t, q)

\* A search by description, in another case than the text, returns one transaction
\* and leaves out one whose tag alone matches.
C10_Witness ==
    /\ Asked("search_transactions")
    /\ call.args.search_type = "description"
    /\ call.args.query # lower(call.args.query)
    /\ ret.results # <<>>
    /\ \E t \in Range(transactions) :
          InSomeTag(t, call.args.query) /\ t \notin Range(ret.results)

-----------------------------------------------------------------------------
(* Loading *)

Constructed == call.op = "init"

HasKey(key) == data_file.state = "json" /\ key \in DOMAIN data_file.data

LacksKey(key) == data_file.state = "json" /\ key \notin DOMAIN data_file.data

\* The items of the document, when it has any.
StoredItems == IF HasKey("transactions") THEN data_file.data.transactions ELSE <<>>

WellFormed(item) ==
    RequiredKeys \subseteq DOMAIN item /\ item.type \in {"income", "expense"}

\* The list holds the items of the document, field by field and in their order.
ItemsLoaded ==
    /\ Len(transactions) = Len(StoredItems)
    /\ \A i \in 1..Len(StoredItems) :
           /\ transactions[i].id = StoredItems[i].id
           /\ (transactions[i].type = INCOME) = (StoredItems[i].type = "income")
           /\ transactions[i].amount = StoredItems[i].amount
           /\ transactions[i].category = StoredItems[i].category
           /\ transactions[i].description = StoredItems[i].description
           /\ transactions[i].date = StoredItems[i].date

\* C11: the program starts without an error on a missing file, with an empty list
\* and no limits, and on a document that lacks one of the two keys, with an empty
\* collection for that key and the content of the other.
C11_MissingFileOrKeyLoadsEmpty ==
    Constructed =>
        /\ data_file.state = "missing" =>
               /\ running /\ call.err = "none"
               /\ transactions = <<>> /\ budget_limits = EmptyDict
        /\ LacksKey("transactions") =>
               /\ running /\ call.err = "none"
               /\ transactions = <<>>
               /\ HasKey("budget_limits") => budget_limits = data_file.data.budget_limits
        /\ (LacksKey("budget_limits") /\ \A i \in 1..Len(StoredItems) : WellFormed(StoredItems[i])) =>
               /\ running /\ call.err = "none"
               /\ budget_limits = EmptyDict
               /\ ItemsLoaded

\* The program has started on a document with transactions and no limits key.
C11_Witness ==
    /\ Constructed
    /\ LacksKey("budget_limits")
    /\ HasKey("transactions")
    /\ transactions # <<>>

\* C12: when one record of the document has a kind that is neither income nor
\* expense, the start fails with an error and nothing of the document is loaded:
\* no transaction and no limit.
C12_BadKindLoadsNothing ==
    (/\ Constructed
     /\ \E i \in 1..Len(StoredItems) :
           "type" \in DOMAIN StoredItems[i] /\ StoredItems[i].type \notin {"income", "expense"})
    => /\ call.err # "none"
       /\ ~running
       /\ transactions = <<>>
       /\ budget_limits = EmptyDict

\* A start has failed on a document whose bad record stands between two good
\* ones, and that has limits.
C12_Witness ==
    /\ Constructed
    /\ call.err = "ValueError"
    /\ Len(StoredItems) = 3
    /\ WellFormed(StoredItems[1]) /\ ~WellFormed(StoredItems[2]) /\ WellFormed(StoredItems[3])
    /\ HasKey("budget_limits") /\ data_file.data.budget_limits # EmptyDict

-----------------------------------------------------------------------------
(* Failed writes *)

WriteFailed(c) == Mutating(c) /\ c.err = "OSError"

\* C13: a mutating call whose write fails raises the error and keeps its change
\* of the memory: the transaction is appended, the id is gone, the limit is set.
C13_FailedWriteKeepsChange ==
    [][WriteFailed(call') =>
          /\ running'
          /\ ret' = NoRet
          /\ call'.op = "add_transaction" =>
                 /\ Len(transactions') = Len(transactions) + 1
                 /\ SubSeq(transactions', 1, Len(transactions)) = transactions
                 /\ LET added == transactions'[Len(transactions')]
                    IN  /\ added.type = call'.args.type
                        /\ added.amount = call'.args.amount
                        /\ added.category = call'.args.category
                        /\ added.description = call'.args.description
                        /\ added.tags = call'.args.tags
                 /\ budget_limits' = budget_limits
          /\ call'.op = "delete_transaction" =>
                 /\ call'.args.transaction_id \notin IdsOf(transactions')
                 /\ Len(transactions') =
                        Cardinality({i \in 1..Len(transactions) :
                                         transactions[i].id # call'.args.transaction_id})
                 /\ budget_limits' = budget_limits
          /\ call'.op = "set_budget_limit" =>
                 /\ DictHas(budget_limits', call'.args.category)
                 /\ DictGet(budget_limits', call'.args.category, 0) = call'.args.limit
                 /\ transactions' = transactions]_vars

\* An add has failed to write: the transaction is in the list and not in the file.
C13_Witness ==
    /\ WriteFailed(call)
    /\ call.op = "add_transaction"
    /\ data_file.state = "json"
    /\ Len(transactions) = 2
    /\ load_data(data_file, <<>>, EmptyDict).transactions # transactions

-----------------------------------------------------------------------------
(* The entry boundary *)

\* What the transaction form must turn away.
BadTransaction(args) == args.amount <= 0 \/ args.category = "" \/ args.description = <<>>

\* What the budget form must turn away.
BadBudget(args) == args.category = "" \/ args.limit <= 0

LedgerUnchanged ==
    /\ transactions' = transactions
    /\ budget_limits' = budget_limits
    /\ data_file' = data_file

\* C14: a transaction form with an amount <= 0, no category or no description,
\* and a budget form with no category or a limit <= 0, leave the list, the limits
\* and the file as they were; every transaction and every limit that came in
\* through the forms is positive.
C14_FormsRejectBadInput ==
    [][/\ (call'.op = "add_transaction_gui" /\ BadTransaction(call'.args)) => LedgerUnchanged
       /\ (call'.op = "set_budget_gui" /\ BadBudget(call'.args)) => LedgerUnchanged
       /\ \A i \in 1..Len(transactions') :
              /\ transactions'[i].amount > 0
              /\ transactions'[i].category # ""
              /\ transactions'[i].description # <<>>
       /\ \A i \in 1..Len(budget_limits') :
              budget_limits'[i].key # "" /\ budget_limits'[i].value > 0]_vars

\* A form with an amount of zero has been turned away from a ledger that holds a
\* transaction and a limit, both entered through the forms.
C14_Witness ==
    /\ call.op = "add_transaction_gui"
    /\ call.args.amount = 0
    /\ call.args.category # "" /\ call.args.description # <<>>
    /\ call.err = "Amount must be positive"
    /\ transactions # <<>>
    /\ budget_limits # EmptyDict

-----------------------------------------------------------------------------
(* Spending of amounts that were never validated *)

\* C15 as stated: no category of get_category_spending(month) has the value zero.
C15_NoZeroValue ==
    Asked("get_category_spending") =>
        \A i \in 1..Len(ret.spending) : ret.spending[i].value # 0

\* C15: get_category_spending(month) has an entry for every category with an
\* expense dated in the month, whatever its amount; the value is zero exactly when
\* the amounts of these expenses sum to zero, and it is not zero when all of them
\* are positive.
C15_EntryForEveryExpenseCategory ==
    Asked("get_category_spending") =>
        LET month == call.args.month
            expenses(c) == OfCategory(OfType(EXPENSE, month), c)
        IN  /\ \A c \in Categories : DictHas(ret.spending, c) <=> expenses(c) # <<>>
            /\ \A i \in 1..Len(ret.spending) :
                   LET c == ret.spending[i].key
                   IN  /\ c \in Categories
                       /\ (ret.spending[i].value = 0) <=> (SumAmounts(expenses(c)) = 0)
                       /\ (\A j \in 1..Len(expenses(c)) : expenses(c)[j].amount > 0)
                              => ret.spending[i].value # 0

\* An expense of amount zero was added by add_transaction and the spending asked
\* for: its category is in the result with the value zero.
C15_Witness ==
    /\ Asked("get_category_spending")
    /\ \E i \in 1..Len(transactions) :
          /\ transactions[i].type = EXPENSE /\ transactions[i].amount = 0
          /\ transactions[i].id \in issued_ids
          /\ DictHas(ret.spending, transactions[i].category)
          /\ DictGet(ret.spending, transactions[i].category, 1) = 0

-----------------------------------------------------------------------------
(* Queries *)

QueryOps ==
    {"get_category_spending", "check_budget_alerts", "calculate_profit_loss",
     "get_monthly_summary", "search_transactions"}

\* C20: get_category_spending, check_budget_alerts, calculate_profit_loss,
\* get_monthly_summary and search_transactions leave the transaction list, the
\* budget limits and the file as they were.
C20_QueriesReadOnly ==
    [][call'.op \in QueryOps =>
          /\ transactions' = transactions
          /\ budget_limits' = budget_limits
          /\ data_file' = data_file
          /\ running' = running]_vars

\* A query has run on a ledger with transactions and limits whose last write
\* had failed, so that the file and the memory differ.
C20_Witness ==
    /\ call.op \in QueryOps
    /\ transactions # <<>>
    /\ budget_limits # EmptyDict
    /\ faults > 0
    /\ (data_file.state # "json"
        \/ load_data(data_file, <<>>, EmptyDict).transactions # transactions)

-----------------------------------------------------------------------------
(* What delete_transaction and set_budget_limit touch *)

\* The positions of the transactions whose id is not the one given.
KeptPositions(txs, id) == {i \in 1..Len(txs) : txs[i].id # id}

\* The j-th position of the set, counted from the front.
NthOf(positions, j) ==
    CHOOSE i \in positions : Cardinality({k \in positions : k < i}) = j - 1

\* C16: delete_transaction(id) takes out every transaction of that id and no
\* other: those that stay are the same records in the same order, the limits stay,
\* and with no such id the list stays as it is and no error is raised.
C16_DeleteRemovesExactlyTheId ==
    [][call'.op = "delete_transaction" =>
          LET id == call'.args.transaction_id
              kept == KeptPositions(transactions, id)
          IN  /\ Len(transactions') = Cardinality(kept)
              /\ \A j \in 1..Len(transactions') :
                     transactions'[j] = transactions[NthOf(kept, j)]
              /\ budget_limits' = budget_limits
              /\ id \notin IdsOf(transactions) =>
                     /\ transactions' = transactions
                     /\ faults' = faults => call'.err = "none"]_vars

\* The older of two transactions has been deleted from a ledger with limits; the
\* younger one is what is left.
C16_Witness ==
    /\ Deleted(call)
    /\ Len(transactions) = 1
    /\ transactions[1].id > call.args.transaction_id
    /\ budget_limits # EmptyDict

\* C17: set_budget_limit(category, limit) makes the limit of the category the
\* value given, in place of an earlier one; no category has two limits, the limits
\* of the other categories and the transactions stay.
C17_SetLimitOverwritesOneCategory ==
    [][call'.op = "set_budget_limit" =>
          LET category == call'.args.category
          IN  /\ DictHas(budget_limits', category)
              /\ \A i \in 1..Len(budget_limits') :
                     budget_limits'[i].key = category =>
                         budget_limits'[i].value = call'.args.limit
              /\ Cardinality(DictKeys(budget_limits')) = Len(budget_limits')
              /\ DictKeys(budget_limits') = DictKeys(budget_limits) \cup {category}
              /\ \A i \in 1..Len(budget_limits) :
                     budget_limits[i].key # category =>
                         \E j \in 1..Len(budget_limits') : budget_limits'[j] = budget_limits[i]
              /\ transactions' = transactions]_vars

\* The limit of a category that had one was set again, next to the limit of
\* another category.
C17_Witness ==
    /\ call.op = "set_budget_limit"
    /\ call.err = "none"
    /\ Len(budget_limits) = 2
    /\ budget_limits[1].key = call.args.category
    /\ budget_limits[1].value = 3
    /\ transactions # <<>>

-----------------------------------------------------------------------------
(* The order of the search results *)

\* r is what is left of s when some of its elements are taken out.
IsSubsequence(r, s) ==
    \E f \in [1..Len(r) -> 1..Len(s)] :
        /\ \A j \in 1..Len(r) : r[j] = s[f[j]]
        /\ \A j, k \in 1..Len(r) : j < k => f[j] < f[k]

\* C18: the results of search_transactions are transactions of the list, in the
\* order of the list and each at most once, also when the description and a tag
\* of a transaction both hold the query.
C18_ResultsAreSubsequence ==
    Asked("search_transactions") => IsSubsequence(ret.results, transactions)

\* A search of type "all" has found two transactions, one of them by its
\* description and by a tag at once.
C18_Witness ==
    /\ Asked("search_transactions")
    /\ call.args.search_type = "all"
    /\ Len(ret.results) = 2
    /\ \E t \in Range(ret.results) :
          InDescription(t, call.args.query) /\ InSomeTag(t, call.args.query)

-----------------------------------------------------------------------------
(* get_monthly_summary against calculate_profit_loss *)

\* The year-month of a date, by the calendar.
YearMonth(t) == strftime_Ym(strptime(t.date))

DatedMonths == {YearMonth(transactions[i]) : i \in 1..Len(transactions)}

ProfitLoss(month) == calculate_profit_loss(transactions, month).value[1]

\* The income, and the expenses, of all entries of a summary together.
RECURSIVE SumIncome(_)
SumIncome(summary) ==
    IF summary = <<>> THEN 0 ELSE Head(summary).value.income + SumIncome(Tail(summary))

RECURSIVE SumExpenses(_)
SumExpenses(summary) ==
    IF summary = <<>> THEN 0 ELSE Head(summary).value.expenses + SumExpenses(Tail(summary))

\* C19: get_monthly_summary has one entry for each year-month a transaction is
\* dated in; its income and expenses are the totals calculate_profit_loss gives
\* for that month, and over all months they add up to the totals
\* calculate_profit_loss gives with no month.
C19_SummaryAgreesWithProfitLoss ==
    Asked("get_monthly_summary") =>
        LET income(m) == DictGet(ret.summary, m, [income |-> 0, expenses |-> 0]).income
            expenses(m) == DictGet(ret.summary, m, [income |-> 0, expenses |-> 0]).expenses
        IN  /\ DictKeys(ret.summary) = DatedMonths
            /\ Len(ret.summary) = Cardinality(DatedMonths)
            /\ \A m \in DatedMonths :
                   /\ DictHas(ret.summary, m)
                   /\ income(m) = ProfitLoss(Some(m)).total_income
                   /\ expenses(m) = ProfitLoss(Some(m)).total_expenses
            /\ SumIncome(ret.summary) = ProfitLoss(None).total_income
            /\ SumExpenses(ret.summary) = ProfitLoss(None).total_expenses

\* The summary of a ledger with income in one month and an expense in another.
C19_Witness ==
    /\ Asked("get_monthly_summary")
    /\ Len(ret.summary) = 2
    /\ \E i, j \in 1..Len(ret.summary) :
          /\ i # j
          /\ ret.summary[i].value.income > 0
          /\ ret.summary[j].value.expenses > 0
          /\ ret.summary[j].value.income = 0

====
